---- MODULE Spec2Model ----
(***************************************************************************)
(* HuaweiInverter (custom_components/qilowatt/inverter/huawei.py): the     *)
(* adapter that collects the entities of an inverter device and of its     *)
(* child devices once, at construction, and then builds the ENERGY and     *)
(* METRICS records from the states the state store holds at each call.     *)
(*                                                                         *)
(* Strings the code takes suffixes of (entity identifiers, logical names)  *)
(* are sequences of segments; state texts, which the code parses, are      *)
(* sequences of characters.  Floats are exact decimals m * 10^-e, plus the *)
(* two infinities and not-a-number; binary rounding is not modelled.       *)
(***************************************************************************)
EXTENDS Integers, Sequences, FiniteSets, TLC

VARIABLES
    entities,      \* entity_registry.entities: the entries, in the registry's order
    devices,       \* device_registry.devices: the entries, in the registry's order
    states,        \* hass.states: entity identifier -> State object, or none
    config_entry,  \* config_entry.data
    self,          \* the instance's attributes (empty before __init__)
    built,         \* the registries __init__ read, and the attributes it left
    call,          \* the last call made on the instance, and what it gave
    changes        \* registry and state-store changes made so far

vars == <<entities, devices, states, config_entry, self, built, call, changes>>

(***************************************************************************)
(* Bounds of the model.                                                    *)
(***************************************************************************)
MaxChanges == 1
MaxCollectEntities == 3

None == "None"

(***************************************************************************)
(* Sequences.                                                              *)
(***************************************************************************)
Range(s) == {s[i] : i \in 1..Len(s)}

\* str.endswith
EndsWith(s, suffix) ==
    /\ Len(suffix) <= Len(s)
    /\ SubSeq(s, Len(s) - Len(suffix) + 1, Len(s)) = suffix

RECURSIVE Pow10(_)
Pow10(n) == IF n = 0 THEN 1 ELSE 10 * Pow10(n - 1)

(***************************************************************************)
(* Floats: [k |-> "fin", m, e] is m * 10^-e with no trailing zero digit in *)
(* the fraction, [k |-> "inf", m |-> +-1] an infinity, [k |-> "nan"] a     *)
(* not-a-number.                                                           *)
(***************************************************************************)
RECURSIVE Norm(_, _)
Norm(m, e) ==
    IF e > 0 /\ m % 10 = 0 THEN Norm(m \div 10, e - 1)
    ELSE [k |-> "fin", m |-> m, e |-> e]

Fin(m) == [k |-> "fin", m |-> m, e |-> 0]
Inf(sign) == [k |-> "inf", m |-> sign, e |-> 0]
NaN == [k |-> "nan", m |-> 0, e |-> 0]

Sign(m) == IF m < 0 THEN -1 ELSE 1
Max(a, b) == IF a >= b THEN a ELSE b

\* x * y
FMul(x, y) ==
    IF x.k = "nan" \/ y.k = "nan" THEN NaN
    ELSE IF x.k = "inf" \/ y.k = "inf"
         THEN IF x.m = 0 \/ y.m = 0 THEN NaN ELSE Inf(Sign(x.m) * Sign(y.m))
         ELSE Norm(x.m * y.m, x.e + y.e)

\* x - y
FSub(x, y) ==
    IF x.k = "nan" \/ y.k = "nan" THEN NaN
    ELSE IF x.k = "inf"
         THEN IF y.k = "inf" /\ y.m = x.m THEN NaN ELSE x
         ELSE IF y.k = "inf" THEN Inf(-y.m)
              ELSE LET e == Max(x.e, y.e)
                   IN  Norm(x.m * Pow10(e - x.e) - y.m * Pow10(e - y.e), e)

\* int(x), were it to round down.
IntOfFloat_floor(x) ==
    IF x.k = "inf" THEN [exc |-> "OverflowError", val |-> 0]
    ELSE IF x.k = "nan" THEN [exc |-> "ValueError", val |-> 0]
    ELSE [exc |-> "none", val |-> x.m \div Pow10(x.e)]

\* int(x): truncation toward zero; OverflowError for an infinity, ValueError
\* for a not-a-number.
IntOfFloat(x) ==
    IF x.k = "inf" THEN [exc |-> "OverflowError", val |-> 0]
    ELSE IF x.k = "nan" THEN [exc |-> "ValueError", val |-> 0]
    ELSE [exc |-> "none",
          val |-> IF x.m >= 0 THEN x.m \div Pow10(x.e)
                  ELSE -((-x.m) \div Pow10(x.e))]

(***************************************************************************)
(* float(text): an optional sign, then inf, infinity or nan, or digits     *)
(* with at most one point and at least one digit.  Anything else is a      *)
(* ValueError.  (Blanks around the number, exponents, underscores and      *)
(* upper case are left out: no text of the model has them.)                *)
(***************************************************************************)
Digits == <<"0", "1", "2", "3", "4", "5", "6", "7", "8", "9">>

IsDigit(c) == c \in Range(Digits)
DigitVal(c) == (CHOOSE i \in 1..Len(Digits) : Digits[i] = c) - 1

RECURSIVE DigitsVal(_)
DigitsVal(s) ==
    IF s = <<>> THEN 0
    ELSE 10 * DigitsVal(SubSeq(s, 1, Len(s) - 1)) + DigitVal(s[Len(s)])

ParseFloat(text) ==
    LET signed == Len(text) > 0 /\ text[1] \in {"+", "-"}
        sign == IF signed /\ text[1] = "-" THEN -1 ELSE 1
        body == IF signed THEN Tail(text) ELSE text
        points == {i \in 1..Len(body) : body[i] = "."}
        point == IF points = {} THEN Len(body) + 1
                 ELSE CHOOSE i \in points : \A j \in points : i <= j
        whole == SubSeq(body, 1, point - 1)
        frac == SubSeq(body, point + 1, Len(body))
    IN  IF body \in {<<"i", "n", "f">>, <<"i", "n", "f", "i", "n", "i", "t", "y">>}
        THEN [ok |-> TRUE, val |-> Inf(sign)]
        ELSE IF body = <<"n", "a", "n">>
        THEN [ok |-> TRUE, val |-> NaN]
        ELSE IF /\ Len(whole) + Len(frac) >= 1
                /\ \A i \in 1..Len(whole) : IsDigit(whole[i])
                /\ \A i \in 1..Len(frac) : IsDigit(frac[i])
        THEN [ok |-> TRUE, val |-> Norm(sign * DigitsVal(whole \o frac), Len(frac))]
        ELSE [ok |-> FALSE, val |-> NaN]

(***************************************************************************)
(* Entity identifiers and logical names, in segments: one ends with        *)
(* another exactly when its segments do.                                   *)
(***************************************************************************)
ID_ACTIVE_POWER == <<"sensor.", "inverter_", "active_power">>
ID_METER_ACTIVE_POWER == <<"sensor.", "power_meter_", "active_power">>
ID_STATE_OF_CAPACITY == <<"sensor.", "battery_", "state_of_capacity">>
ID_PHASE_A_VOLTAGE == <<"sensor.", "power_meter_", "phase_a_", "voltage">>
ID_HUAWEI_DERATING == <<"number.", "huawei_", "inverter_power_derating">>

\* "number.inverter_power_derating"
DERATING_ENTITY == <<"number.", "inverter_power_derating">>

EntityIds ==
    {ID_ACTIVE_POWER, ID_METER_ACTIVE_POWER, ID_STATE_OF_CAPACITY,
     ID_PHASE_A_VOLTAGE, ID_HUAWEI_DERATING, DERATING_ENTITY}

DeviceIds == {"inverter", "meter", "battery", "other"}

N_PHASE_A_ACTIVE_POWER == <<"power_meter_", "phase_a_", "active_power">>
N_PHASE_B_ACTIVE_POWER == <<"power_meter_", "phase_b_", "active_power">>
N_PHASE_C_ACTIVE_POWER == <<"power_meter_", "phase_c_", "active_power">>
N_CONSUMPTION == <<"power_meter_", "consumption">>
N_PHASE_A_VOLTAGE == <<"power_meter_", "phase_a_", "voltage">>
N_PHASE_B_VOLTAGE == <<"power_meter_", "phase_b_", "voltage">>
N_PHASE_C_VOLTAGE == <<"power_meter_", "phase_c_", "voltage">>
N_PHASE_A_CURRENT == <<"power_meter_", "phase_a_", "current">>
N_PHASE_B_CURRENT == <<"power_meter_", "phase_b_", "current">>
N_PHASE_C_CURRENT == <<"power_meter_", "phase_c_", "current">>
N_FREQUENCY == <<"power_meter_", "frequency">>
N_PV_1_VOLTAGE == <<"pv_1_", "voltage">>
N_PV_1_CURRENT == <<"pv_1_", "current">>
N_PV_2_VOLTAGE == <<"pv_2_", "voltage">>
N_PV_2_CURRENT == <<"pv_2_", "current">>
N_ACTIVE_POWER == <<"active_power">>
N_METER_ACTIVE_POWER == <<"power_meter_", "active_power">>
N_CHARGE_DISCHARGE_POWER == <<"charge_discharge_power">>
N_BUS_CURRENT == <<"bus_", "current">>
N_BUS_VOLTAGE == <<"bus_", "voltage">>
N_STATE_OF_CAPACITY == <<"state_of_capacity">>
N_BMS_TEMPERATURE == <<"battery_1_bms_", "temperature">>
N_INTERNAL_TEMPERATURE == <<"internal_", "temperature">>
N_DERATING == <<"inverter_power_derating">>

(***************************************************************************)
(* State texts, in characters.                                             *)
(***************************************************************************)
T_UNKNOWN == <<"u", "n", "k", "n", "o", "w", "n">>
T_UNAVAILABLE == <<"u", "n", "a", "v", "a", "i", "l", "a", "b", "l", "e">>
T_EMPTY == <<>>
T_NA == <<"N", "/", "A">>
T_12_7 == <<"1", "2", ".", "7">>
T_NEG_12_7 == <<"-", "1", "2", ".", "7">>
T_5000 == <<"5", "0", "0", "0">>
T_INF == <<"i", "n", "f">>
T_NAN == <<"n", "a", "n">>

Texts ==
    {T_UNKNOWN, T_UNAVAILABLE, T_EMPTY, T_NA, T_12_7, T_NEG_12_7, T_5000,
     T_INF, T_NAN}

\* A State object of the state store, and the None that states.get gives
\* for an entity that never reported.
State(text) == [present |-> TRUE, state |-> text]
NoState == [present |-> FALSE, state |-> <<>>]

(***************************************************************************)
(* HuaweiInverter.                                                         *)
(***************************************************************************)
\* all_entities[entity.entity_id] = entity, the dict kept as the sequence of
\* its values in insertion order: a key already there keeps its place.
DictSet(all_entities, entity) ==
    IF \E i \in 1..Len(all_entities) : all_entities[i].entity_id = entity.entity_id
    THEN [i \in 1..Len(all_entities) |->
             IF all_entities[i].entity_id = entity.entity_id THEN entity
             ELSE all_entities[i]]
    ELSE Append(all_entities, entity)

Keys(all_entities) == [i \in 1..Len(all_entities) |-> all_entities[i].entity_id]

\* The loop below, were it to leave out the test of disabled_by.
RECURSIVE AddDeviceEntities_disabled_too(_, _, _)
AddDeviceEntities_disabled_too(all_entities, device_id, i) ==
    IF i > Len(entities) THEN all_entities
    ELSE AddDeviceEntities_disabled_too(
             IF entities[i].device_id = device_id
             THEN DictSet(all_entities, entities[i])
             ELSE all_entities,
             device_id, i + 1)

\* The loop over entity_registry.entities.values(), from its i-th entry on,
\* that adds the enabled entities of one device.
RECURSIVE AddDeviceEntities(_, _, _)
AddDeviceEntities(all_entities, device_id, i) ==
    IF i > Len(entities) THEN all_entities
    ELSE AddDeviceEntities(
             IF entities[i].device_id = device_id /\ entities[i].disabled_by = None
             THEN DictSet(all_entities, entities[i])
             ELSE all_entities,
             device_id, i + 1)

enabled_count(device_id) ==
    Cardinality({i \in 1..Len(entities) :
                    entities[i].device_id = device_id /\ entities[i].disabled_by = None})

\* The loop over device_registry.devices.values(), from its j-th entry on.
RECURSIVE AddChildDevices(_, _, _)
AddChildDevices(all_entities, device_id, j) ==
    IF j > Len(devices) THEN all_entities
    ELSE AddChildDevices(
             IF devices[j].via_device_id = device_id /\ enabled_count(devices[j].id) > 0
             THEN AddDeviceEntities(all_entities, devices[j].id, 1)
             ELSE all_entities,
             device_id, j + 1)

collect_device_entities(device_id) ==
    AddChildDevices(AddDeviceEntities(<<>>, device_id, 1), device_id, 1)

\* hass.states.get
StatesGet(entity_id) ==
    IF entity_id \in DOMAIN states THEN states[entity_id] ELSE NoState

\* find_entity_state without its special case.
find_entity_state_by_suffix(entity_id) ==
    LET keys == Keys(self.all_entities)
        found == {i \in 1..Len(keys) : EndsWith(keys[i], entity_id)}
    IN  IF found = {} THEN NoState
        ELSE StatesGet(keys[CHOOSE i \in found : \A j \in found : i <= j])

\* find_entity_state, were the last matching key to win.
find_entity_state_last(entity_id) ==
    IF entity_id = N_DERATING THEN StatesGet(DERATING_ENTITY)
    ELSE LET keys == Keys(self.all_entities)
             found == {i \in 1..Len(keys) : EndsWith(keys[i], entity_id)}
         IN  IF found = {} THEN NoState
             ELSE StatesGet(keys[CHOOSE i \in found : \A j \in found : i >= j])

\* find_entity_state, were it to go on to the next matching key when one has
\* no state.
find_entity_state_fall_through(entity_id) ==
    IF entity_id = N_DERATING THEN StatesGet(DERATING_ENTITY)
    ELSE LET keys == Keys(self.all_entities)
             found == {i \in 1..Len(keys) :
                          EndsWith(keys[i], entity_id) /\ StatesGet(keys[i]).present}
         IN  IF found = {} THEN NoState
             ELSE StatesGet(keys[CHOOSE i \in found : \A j \in found : i <= j])

find_entity_state(entity_id) ==
    IF entity_id = N_DERATING THEN StatesGet(DERATING_ENTITY)
    ELSE LET keys == Keys(self.all_entities)
             found == {i \in 1..Len(keys) : EndsWith(keys[i], entity_id)}
         IN  IF found = {} THEN NoState
             ELSE StatesGet(keys[CHOOSE i \in found : \A j \in found : i <= j])

NoData == {T_UNKNOWN, T_UNAVAILABLE, T_EMPTY}

\* get_state_float, were it to fall back to 0.0 and not to the default.
get_state_float_zero(entity_id, default) ==
    LET state == find_entity_state(entity_id)
        parsed == ParseFloat(state.state)
    IN  IF state.present /\ state.state \notin NoData /\ parsed.ok
        THEN parsed.val
        ELSE Fin(0)

get_state_float(entity_id, default) ==
    LET state == find_entity_state(entity_id)
        parsed == ParseFloat(state.state)
    IN  IF state.present /\ state.state \notin NoData /\ parsed.ok
        THEN parsed.val
        ELSE default

\* What a call gives: its value, or the exception it lets through.
Returns(val) == [exc |-> "none", val |-> val]

get_state_int(entity_id, default) ==
    LET state == find_entity_state(entity_id)
        parsed == ParseFloat(state.state)
        int == IntOfFloat(parsed.val)
    IN  IF state.present /\ state.state \notin NoData /\ parsed.ok
           /\ int.exc # "ValueError"
        THEN int
        ELSE Returns(default)

\* self.voltage, as get_energy_data sets it
energy_voltage ==
    <<get_state_float(N_PHASE_A_VOLTAGE, Fin(0)),
      get_state_float(N_PHASE_B_VOLTAGE, Fin(0)),
      get_state_float(N_PHASE_C_VOLTAGE, Fin(0))>>

get_energy_data ==
    [Power |-> <<FMul(get_state_float(N_PHASE_A_ACTIVE_POWER, Fin(0)), Fin(-1)),
                 FMul(get_state_float(N_PHASE_B_ACTIVE_POWER, Fin(0)), Fin(-1)),
                 FMul(get_state_float(N_PHASE_C_ACTIVE_POWER, Fin(0)), Fin(-1))>>,
     Today |-> Fin(0),
     Total |-> FMul(get_state_float(N_CONSUMPTION, Fin(0)), Fin(-1)),
     Current |-> <<get_state_float(N_PHASE_A_CURRENT, Fin(0)),
                   get_state_float(N_PHASE_B_CURRENT, Fin(0)),
                   get_state_float(N_PHASE_C_CURRENT, Fin(0))>>,
     Voltage |-> energy_voltage,
     Frequency |-> get_state_float(N_FREQUENCY, Fin(0))]

get_metrics_data ==
    LET pv_voltage_1 == get_state_float(N_PV_1_VOLTAGE, Fin(0))
        pv_current_1 == get_state_float(N_PV_1_CURRENT, Fin(0))
        pv_voltage_2 == get_state_float(N_PV_2_VOLTAGE, Fin(0))
        pv_current_2 == get_state_float(N_PV_2_CURRENT, Fin(0))
        inverter_active_power == get_state_float(N_ACTIVE_POWER, Fin(0))
        power_meter_active_power == get_state_float(N_METER_ACTIVE_POWER, Fin(0))
        load_power_total == FSub(inverter_active_power, power_meter_active_power)
        battery_soc == get_state_int(N_STATE_OF_CAPACITY, 0)
    IN  IF battery_soc.exc # "none" THEN battery_soc
        ELSE Returns(
            [PvPower |-> <<FMul(pv_voltage_1, pv_current_1),
                           FMul(pv_voltage_2, pv_current_2)>>,
             PvVoltage |-> <<pv_voltage_1, pv_voltage_2>>,
             PvCurrent |-> <<pv_current_1, pv_current_2>>,
             LoadPower |-> <<load_power_total>>,
             AlarmCodes |-> <<0, 0, 0, 0, 0, 0>>,
             BatterySOC |-> battery_soc.val,
             LoadCurrent |-> <<Fin(0), Fin(0), Fin(0)>>,
             BatteryPower |-> <<get_state_float(N_CHARGE_DISCHARGE_POWER, Fin(0))>>,
             BatteryCurrent |-> <<get_state_float(N_BUS_CURRENT, Fin(0))>>,
             BatteryVoltage |-> <<get_state_float(N_BUS_VOLTAGE, Fin(0))>>,
             InverterStatus |-> 2,
             GridExportLimit |-> get_state_float(N_DERATING, Fin(0)),
             BatteryTemperature |-> <<get_state_float(N_BMS_TEMPERATURE, Fin(0))>>,
             InverterTemperature |-> get_state_float(N_INTERNAL_TEMPERATURE, Fin(0))])

(***************************************************************************)
(* The registries, the state store and the instance.                       *)
(***************************************************************************)
Entity(entity_id, device_id, disabled_by) ==
    [entity_id |-> entity_id, device_id |-> device_id, disabled_by |-> disabled_by]

Device(id, via_device_id) == [id |-> id, via_device_id |-> via_device_id]

\* An instance with no attribute: HuaweiInverter before __init__.
NoAttributes == [a \in {} |-> None]

NoCall == [op |-> "none", entity_id |-> <<>>, default |-> 0, ret |-> 0]

NotBuilt == [entities |-> <<>>, devices |-> <<>>, self |-> NoAttributes]

Remove(s, i) == SubSeq(s, 1, i - 1) \o SubSeq(s, i + 1, Len(s))

\* Every sensor reporting.
Reporting ==
    [id \in EntityIds |->
        CASE id = ID_ACTIVE_POWER -> State(T_5000)
          [] id = ID_METER_ACTIVE_POWER -> State(T_NEG_12_7)
          [] id = ID_STATE_OF_CAPACITY -> State(T_12_7)
          [] id = ID_PHASE_A_VOLTAGE -> State(T_12_7)
          [] id = ID_HUAWEI_DERATING -> State(T_NEG_12_7)
          [] OTHER -> State(T_5000)]

\* The entity registry of an installation: the meter's power entity is
\* registered before or after the inverter's, under the meter or under the
\* inverter itself.
Installed(meter_first, meter_device) ==
    LET active == Entity(ID_ACTIVE_POWER, "inverter", None)
        meter == Entity(ID_METER_ACTIVE_POWER, meter_device, None)
    IN  (IF meter_first THEN <<meter, active>> ELSE <<active, meter>>)
        \o <<Entity(ID_STATE_OF_CAPACITY, "battery", None),
             Entity(ID_PHASE_A_VOLTAGE, "meter", None),
             Entity(ID_HUAWEI_DERATING, "inverter", None)>>

\* An installation of the inverter, its power meter and its battery, and a
\* configuration that names the inverter, or a device the registry does not
\* know.
Init ==
    /\ devices = <<Device("inverter", None), Device("meter", "inverter"),
                    Device("battery", "inverter")>>
    /\ \/ /\ \E meter_first \in BOOLEAN, meter_device \in {"inverter", "meter"} :
                  entities = Installed(meter_first, meter_device)
          /\ config_entry = [device_id |-> "inverter"]
       \/ /\ entities = Installed(FALSE, "meter")
          /\ config_entry = [device_id |-> "unknown_device"]
    /\ states = Reporting
    /\ self = NoAttributes
    /\ built = NotBuilt
    /\ call = NoCall
    /\ changes = 0

\* HuaweiInverter.__init__
HuaweiInverter__init__ ==
    /\ self = NoAttributes
    /\ call = NoCall
    /\ self' = [device_id |-> config_entry.device_id,
                all_entities |-> collect_device_entities(config_entry.device_id)]
    /\ built' = [entities |-> entities, devices |-> devices, self |-> self']
    /\ call' = NoCall
    /\ UNCHANGED <<entities, devices, states, config_entry, changes>>

\* A call on the instance, made when the last one has returned.
Called(op, entity_id, default, ret) ==
    /\ self # NoAttributes
    /\ call = NoCall
    /\ call' = [op |-> op, entity_id |-> entity_id, default |-> default, ret |-> ret]
    /\ UNCHANGED <<entities, devices, states, config_entry, built, changes>>

\* The logical names and defaults the helpers are called with.
HelperNames == {N_ACTIVE_POWER, N_DERATING}
Defaults == {0, 5}

CallFindEntityState ==
    \E entity_id \in HelperNames :
        /\ Called("find_entity_state", entity_id, 0, find_entity_state(entity_id))
        /\ UNCHANGED self

CallGetStateFloat ==
    \E entity_id \in HelperNames, default \in Defaults :
        /\ Called("get_state_float", entity_id, default,
                  get_state_float(entity_id, Fin(default)))
        /\ UNCHANGED self

CallGetStateInt ==
    \E entity_id \in HelperNames, default \in Defaults :
        /\ Called("get_state_int", entity_id, default,
                  get_state_int(entity_id, default))
        /\ UNCHANGED self

\* get_energy_data: the record, and self.voltage
CallGetEnergyData ==
    /\ Called("get_energy_data", <<>>, 0, Returns(get_energy_data))
    /\ self' = [device_id |-> self.device_id, all_entities |-> self.all_entities,
                voltage |-> energy_voltage]

\* get_metrics_data, were it to collect the entities again.
CallGetMetricsData_collecting ==
    /\ Called("get_metrics_data", <<>>, 0, get_metrics_data)
    /\ self' = [self EXCEPT !.all_entities = collect_device_entities(self.device_id)]

CallGetMetricsData ==
    /\ Called("get_metrics_data", <<>>, 0, get_metrics_data)
    /\ UNCHANGED self

\* The caller takes what the call gave.
Return ==
    /\ call # NoCall
    /\ call' = NoCall
    /\ UNCHANGED <<entities, devices, states, config_entry, self, built, changes>>

\* A change of the registries or of the state store, by the platform, between
\* two calls.
Changed ==
    /\ changes < MaxChanges
    /\ call = NoCall
    /\ changes' = changes + 1
    /\ call' = NoCall
    /\ UNCHANGED <<config_entry, self, built>>

\* hass.states.async_set
StatesSet ==
    \E entity_id \in EntityIds, text \in Texts :
        /\ Changed
        /\ states[entity_id] # State(text)
        /\ states' = [states EXCEPT ![entity_id] = State(text)]
        /\ UNCHANGED <<entities, devices>>

\* hass.states.async_remove
StatesRemove ==
    \E entity_id \in EntityIds :
        /\ Changed
        /\ states[entity_id].present
        /\ states' = [states EXCEPT ![entity_id] = NoState]
        /\ UNCHANGED <<entities, devices>>

\* An entity is disabled or enabled again.
RegistryUpdateEntity ==
    \E i \in 1..Len(entities) :
        /\ Changed
        /\ entities' = [entities EXCEPT ![i].disabled_by =
                           IF entities[i].disabled_by = None THEN "user" ELSE None]
        /\ UNCHANGED <<devices, states>>

RegistryRemoveEntity ==
    \E i \in 1..Len(entities) :
        /\ Changed
        /\ entities' = Remove(entities, i)
        /\ UNCHANGED <<devices, states>>

RegistryCreateEntity ==
    \E entity_id \in EntityIds \ Range(Keys(entities)),
       device_id \in Range([j \in 1..Len(devices) |-> devices[j].id]) \cup {None} :
        /\ Changed
        /\ entities' = Append(entities, Entity(entity_id, device_id, None))
        /\ UNCHANGED <<devices, states>>

\* A device is attached to another device, or to none.
RegistryUpdateDevice ==
    \E j \in 1..Len(devices), via_device_id \in DeviceIds \cup {None} :
        /\ Changed
        /\ via_device_id \notin {devices[j].id, devices[j].via_device_id}
        /\ devices' = [devices EXCEPT ![j].via_device_id = via_device_id]
        /\ UNCHANGED <<entities, states>>

RegistryRemoveDevice ==
    \E j \in 1..Len(devices) :
        /\ Changed
        /\ devices' = Remove(devices, j)
        /\ UNCHANGED <<entities, states>>

RegistryCreateDevice ==
    \E id \in DeviceIds \ Range([j \in 1..Len(devices) |-> devices[j].id]),
       via_device_id \in DeviceIds \cup {None} :
        /\ Changed
        /\ via_device_id # id
        /\ devices' = Append(devices, Device(id, via_device_id))
        /\ UNCHANGED <<entities, states>>

Next ==
    \/ HuaweiInverter__init__
    \/ CallFindEntityState
    \/ CallGetStateFloat
    \/ CallGetStateInt
    \/ CallGetEnergyData
    \/ CallGetMetricsData
    \/ Return
    \/ StatesSet
    \/ StatesRemove
    \/ RegistryUpdateEntity
    \/ RegistryRemoveEntity
    \/ RegistryCreateEntity
    \/ RegistryUpdateDevice
    \/ RegistryRemoveDevice
    \/ RegistryCreateDevice

Spec == Init /\ [][Next]_vars

(***************************************************************************)
(* Construction alone, over the registries: up to MaxCollectEntities       *)
(* entities, each under any device or none, enabled or disabled; the meter *)
(* and the battery attached to the inverter, to each other or to nothing.  *)
(***************************************************************************)
CollectIds ==
    <<ID_ACTIVE_POWER, ID_METER_ACTIVE_POWER, ID_STATE_OF_CAPACITY,
      ID_PHASE_A_VOLTAGE, ID_HUAWEI_DERATING, DERATING_ENTITY>>

InitCollect ==
    /\ \E meter_via \in {None, "inverter", "battery"},
          battery_via \in {None, "inverter", "meter"} :
           devices = <<Device("inverter", None), Device("meter", meter_via),
                       Device("battery", battery_via)>>
    /\ \E n \in 0..MaxCollectEntities :
           \E device_id \in [1..n -> {"inverter", "meter", "battery", None}],
              disabled_by \in [1..n -> {None, "user"}] :
               entities = [i \in 1..n |->
                              Entity(CollectIds[i], device_id[i], disabled_by[i])]
    /\ \E device_id \in {"inverter", "unknown_device"} :
           config_entry = [device_id |-> device_id]
    /\ states = Reporting
    /\ self = NoAttributes
    /\ built = NotBuilt
    /\ call = NoCall
    /\ changes = 0

SpecCollect == InitCollect /\ [][HuaweiInverter__init__]_vars

(***************************************************************************)
(* The claims.                                                             *)
(***************************************************************************)
Constructed == self # NoAttributes

Abs(n) == IF n < 0 THEN -n ELSE n

\* The device is the root or is attached to the root by its via_device_id.
InHierarchy(device_id, registry, root) ==
    \/ device_id = root
    \/ \E j \in 1..Len(registry) :
           registry[j].id = device_id /\ registry[j].via_device_id = root

\* keys[i] is the first key that ends with the logical name.
FirstMatch(keys, i, name) ==
    /\ EndsWith(keys[i], name)
    /\ \A j \in 1..(i - 1) : ~EndsWith(keys[j], name)

NoMatch(keys, name) == \A i \in 1..Len(keys) : ~EndsWith(keys[i], name)

\* The text is one the float parser takes.
Numeric(state) == state.present /\ ParseFloat(state.state).ok

\* The number a state stands for in a record: the parsed text, or the default.
AsFloat(state, default) ==
    IF Numeric(state) THEN ParseFloat(state.state).val ELSE default

\* n is x without its fraction.
IsTruncation(n, x) ==
    /\ Abs(n) * Pow10(x.e) <= Abs(x.m)
    /\ Abs(x.m) < (Abs(n) + 1) * Pow10(x.e)
    /\ n # 0 => Sign(n) = Sign(x.m)

\* C1: the Collected Entity Set left by construction holds exactly the
\* registry entries that are enabled and belong to the root device or to a
\* device whose via_device_id is the root, each once; so a root with N
\* enabled entities and no child device gives N entries, and a disabled
\* entity, or one of an unrelated or grandchild device, is never in it.
C1_CollectedExactly ==
    Constructed =>
        LET root == config_entry.device_id
            wanted == {e \in Range(built.entities) :
                          /\ e.disabled_by = None
                          /\ InHierarchy(e.device_id, built.devices, root)}
            children == {j \in 1..Len(built.devices) :
                            built.devices[j].via_device_id = root}
            of_root == {e \in Range(built.entities) :
                           e.device_id = root /\ e.disabled_by = None}
        IN  /\ Range(self.all_entities) = wanted
            /\ Len(self.all_entities) = Cardinality(wanted)
            /\ children = {} => Len(self.all_entities) = Cardinality(of_root)
            /\ \A e \in Range(self.all_entities) : e.disabled_by = None

\* A root entity is collected, a child device has only a disabled entity,
\* and an enabled entity of a grandchild device stays out.
C1_Witness ==
    /\ Constructed
    /\ \E e \in Range(self.all_entities) : e.device_id = config_entry.device_id
    /\ \E j \in 1..Len(built.devices) :
           /\ built.devices[j].via_device_id = config_entry.device_id
           /\ \E e \in Range(built.entities) :
                  e.device_id = built.devices[j].id /\ e.disabled_by # None
           /\ \A e \in Range(built.entities) :
                  e.device_id = built.devices[j].id => e.disabled_by # None
    /\ \E e \in Range(built.entities) :
           /\ e.disabled_by = None
           /\ e.device_id \in {"meter", "battery"}
           /\ ~InHierarchy(e.device_id, built.devices, config_entry.device_id)
           /\ e \notin Range(self.all_entities)

\* C2: with the inverter's active_power entity and the meter's
\* power_meter_active_power entity both collected and numeric, LoadPower of
\* the metrics record is the one-element list of the first minus the second.
C2_LoadPower ==
    (/\ call.op = "get_metrics_data"
     /\ call.ret.exc = "none"
     /\ {ID_ACTIVE_POWER, ID_METER_ACTIVE_POWER} \subseteq Range(Keys(self.all_entities))
     /\ Numeric(StatesGet(ID_ACTIVE_POWER))
     /\ Numeric(StatesGet(ID_METER_ACTIVE_POWER)))
    => call.ret.val.LoadPower =
           <<FSub(ParseFloat(StatesGet(ID_ACTIVE_POWER).state).val,
                  ParseFloat(StatesGet(ID_METER_ACTIVE_POWER).state).val)>>

\* C3: the instance's attributes are those construction left, whatever
\* records have been generated since.
C3_NoSideEffects == Constructed => self = built.self

\* C4: the Collected Entity Set stays the one computed at construction,
\* whatever the registries have become, and a record's values are those the
\* state store holds at the call, for the entities of that set.
C4_Snapshot ==
    Constructed =>
        LET keys == Keys(built.self.all_entities)
            Now(name, default) ==
                IF NoMatch(keys, name) THEN default
                ELSE LET i == CHOOSE i \in 1..Len(keys) : FirstMatch(keys, i, name)
                     IN  AsFloat(StatesGet(keys[i]), default)
        IN  /\ self.all_entities = built.self.all_entities
            /\ self.device_id = built.self.device_id
            /\ (call.op = "get_metrics_data" /\ call.ret.exc = "none") =>
                   /\ call.ret.val.LoadPower =
                          <<FSub(Now(N_ACTIVE_POWER, Fin(0)),
                                 Now(N_METER_ACTIVE_POWER, Fin(0)))>>
                   /\ call.ret.val.GridExportLimit =
                          AsFloat(StatesGet(DERATING_ENTITY), Fin(0))
            /\ call.op = "get_energy_data" =>
                   call.ret.val.Voltage =
                       <<Now(N_PHASE_A_VOLTAGE, Fin(0)), Fin(0), Fin(0)>>

\* The registries have changed since construction, so that collecting now
\* would give another set, and a record has been generated.
C4_Witness ==
    /\ Constructed
    /\ <<entities, devices>> # <<built.entities, built.devices>>
    /\ collect_device_entities(self.device_id) # self.all_entities
    /\ call.op = "get_metrics_data"
    /\ call.ret.exc = "none"

\* C5: get_energy_data and get_metrics_data return a record, whatever the
\* Collected Entity Set and the states are.
C5_NeverRaises ==
    call.op \in {"get_energy_data", "get_metrics_data"} => call.ret.exc = "none"

\* C6: the logical name inverter_power_derating resolves to the state of
\* number.inverter_power_derating, never to that of another collected entity
\* whose identifier ends with the name, and GridExportLimit is read from it.
C6_DeratingFixed ==
    /\ (call.op = "find_entity_state" /\ call.entity_id = N_DERATING) =>
           /\ call.ret = StatesGet(DERATING_ENTITY)
           /\ \A key \in Range(Keys(self.all_entities)) \ {DERATING_ENTITY} :
                  (EndsWith(key, N_DERATING)
                   /\ StatesGet(key) # StatesGet(DERATING_ENTITY))
                  => call.ret # StatesGet(key)
    /\ (call.op = "get_metrics_data" /\ call.ret.exc = "none") =>
           call.ret.val.GridExportLimit = AsFloat(StatesGet(DERATING_ENTITY), Fin(0))

\* The name is resolved while a collected entity that ends with it holds
\* another state than the fixed entity.
C6_Witness ==
    /\ call.op = "find_entity_state"
    /\ call.entity_id = N_DERATING
    /\ call.ret.present
    /\ \E key \in Range(Keys(self.all_entities)) :
           /\ EndsWith(key, N_DERATING)
           /\ StatesGet(key).present
           /\ StatesGet(key) # call.ret

\* C7: any other logical name resolves to the state of the first key of the
\* Collected Entity Set that ends with it, and to no-value when no key does,
\* whatever entities outside the set end with it; the keys of the root
\* device come before those of the child devices.
C7_FirstMatch ==
    /\ (call.op = "find_entity_state" /\ call.entity_id # N_DERATING) =>
           LET keys == Keys(self.all_entities)
           IN  /\ NoMatch(keys, call.entity_id) => call.ret = NoState
               /\ \A i \in 1..Len(keys) :
                      FirstMatch(keys, i, call.entity_id)
                      => call.ret = StatesGet(keys[i])
    /\ Constructed =>
           \A i, j \in 1..Len(self.all_entities) :
               (/\ i < j
                /\ self.all_entities[j].device_id = self.device_id)
               => self.all_entities[i].device_id = self.device_id

\* Two keys end with the name and hold different states; the first one's,
\* a root entity's, is the one returned, the second is a child device's.
C7_Witness ==
    /\ call.op = "find_entity_state"
    /\ call.entity_id = N_ACTIVE_POWER
    /\ \E i, j \in 1..Len(self.all_entities) :
           /\ i < j
           /\ EndsWith(self.all_entities[i].entity_id, N_ACTIVE_POWER)
           /\ EndsWith(self.all_entities[j].entity_id, N_ACTIVE_POWER)
           /\ self.all_entities[i].device_id = self.device_id
           /\ self.all_entities[j].device_id # self.device_id
           /\ call.ret = StatesGet(self.all_entities[i].entity_id)
           /\ call.ret # StatesGet(self.all_entities[j].entity_id)

\* C8: get_state_float gives the caller's default when the resolved state is
\* absent, is unknown, unavailable or empty, or is not a number, and the
\* parsed number when the text is numeric.
C8_FloatOrDefault ==
    call.op = "get_state_float" =>
        LET state == find_entity_state(call.entity_id)
        IN  /\ ~state.present => call.ret = Fin(call.default)
            /\ state.state \in {T_UNKNOWN, T_UNAVAILABLE, T_EMPTY, T_NA}
                   => call.ret = Fin(call.default)
            /\ ~Numeric(state) => call.ret = Fin(call.default)
            /\ Numeric(state) => call.ret = ParseFloat(state.state).val
            /\ state = State(T_12_7) => call.ret = [k |-> "fin", m |-> 127, e |-> 1]
            /\ state = State(T_5000) => call.ret = Fin(5000)

\* The resolved state is the text N/A and the default, 5, is returned.
C8_Witness ==
    /\ call.op = "get_state_float"
    /\ call.default = 5
    /\ find_entity_state(call.entity_id) = State(T_NA)
    /\ call.ret = Fin(5)

\* C9: get_state_int gives the resolved decimal number without its fraction,
\* for either sign, and the default when the state is absent, a sentinel or
\* not a number; BatterySOC of the metrics record is that value.
C9_Truncates ==
    /\ call.op = "get_state_int" =>
           LET state == find_entity_state(call.entity_id)
               x == ParseFloat(state.state).val
           IN  /\ (Numeric(state) /\ x.k = "fin") =>
                      /\ call.ret.exc = "none"
                      /\ IsTruncation(call.ret.val, x)
               /\ (~Numeric(state) \/ state.state \in NoData) =>
                      call.ret = Returns(call.default)
               /\ state = State(T_12_7) => call.ret = Returns(12)
               /\ state = State(T_NEG_12_7) => call.ret = Returns(-12)
    /\ (call.op = "get_metrics_data" /\ call.ret.exc = "none") =>
           LET keys == Keys(self.all_entities)
           IN  \A i \in 1..Len(keys) :
                   (/\ FirstMatch(keys, i, N_STATE_OF_CAPACITY)
                    /\ Numeric(StatesGet(keys[i]))
                    /\ ParseFloat(StatesGet(keys[i]).state).val.k = "fin")
                   => IsTruncation(call.ret.val.BatterySOC,
                                   ParseFloat(StatesGet(keys[i]).state).val)

\* The resolved state is -12.7 and, with default 5, -12 is returned.
C9_Witness ==
    /\ call.op = "get_state_int"
    /\ call.default = 5
    /\ find_entity_state(call.entity_id) = State(T_NEG_12_7)
    /\ call.ret = Returns(-12)

\* C10: when the first key that ends with the logical name has no state,
\* find_entity_state gives no-value and the typed getters the default, even
\* if a later key that ends with it has one.
C10_NoFallThrough ==
    (call.op \in {"find_entity_state", "get_state_float", "get_state_int"}
     /\ call.entity_id # N_DERATING) =>
        LET keys == Keys(self.all_entities)
        IN  \A i \in 1..Len(keys) :
                (FirstMatch(keys, i, call.entity_id) /\ ~StatesGet(keys[i]).present)
                => call.ret = CASE call.op = "find_entity_state" -> NoState
                                [] call.op = "get_state_float" -> Fin(call.default)
                                [] OTHER -> Returns(call.default)

\* The first key that ends with the name has no state, a later one has a
\* numeric state, and get_state_float gave the default, 5.
C10_Witness ==
    /\ call.op = "get_state_float"
    /\ call.default = 5
    /\ call.ret = Fin(5)
    /\ \E i, j \in 1..Len(self.all_entities) :
           /\ i < j
           /\ FirstMatch(Keys(self.all_entities), i, call.entity_id)
           /\ ~StatesGet(self.all_entities[i].entity_id).present
           /\ EndsWith(self.all_entities[j].entity_id, call.entity_id)
           /\ Numeric(StatesGet(self.all_entities[j].entity_id))

====
